---- MODULE Spec2Model ----
(***************************************************************************)
(* A model of the TSRPC server core (BaseServer / HttpServer): the server  *)
(* lifecycle (start, graceful and immediate stop), the connection set and  *)
(* broadcastMsg.  Every asynchronous method is split at its awaits: the    *)
(* code between two awaits runs to completion and is one action.           *)
(***************************************************************************)
EXTENDS Integers, Sequences, FiniteSets, TLC

\* ------------------------------------------------------------------ bounds
MaxStarts == 2      \* start() calls awaiting _start at once
MaxStops == 2       \* graceful stop() calls waiting at once
MaxConns == 2       \* connection objects
MaxPending == 1     \* API calls in flight at once
MaxTargets == 3     \* length of an explicit target list of broadcastMsg
MaxStopRuns == 2    \* runs of _stop() between two successful starts
MaxCalls == 2       \* callApi invocations of the HTTP client
CounterMax == 7     \* largest serial number: the u32 counter, scaled to 3 bits
MaxApiCalls == 2    \* API calls a server connection handles
MaxReplies == 2     \* call.succ / call.error made by one handler

ConnIds == 1..MaxConns
CallIds == 1..MaxCalls
ApiCallIds == 1..MaxApiCalls

\* ----------------------------------------------------------------- helpers
Range(s) == {s[i] : i \in 1..Len(s)}

SeqsUpTo(S, n) == UNION {[1..k -> S] : k \in 0..n}

\* the `gracefulWaitTime?: number` argument: <<>> is undefined, <<t>> is t
GraceArgs == {<<>>, <<0>>, <<100>>}

\* `if (gracefulWaitTime)`: undefined and 0 are falsy
Truthy(g) == g # <<>> /\ g[1] # 0

\* enum ServerStatus
ServerStatus == {"Starting", "Started", "Stopping", "Stopped"}

\* BaseConnectionDataType
DataTypes == {"text", "buffer"}

\* the implementations of the abstract _start / _stop the model covers
Transports == {"abstract", "http"}

\* HttpServer._start only creates the native server; an arbitrary transport
\* may throw ("@throws Throw `Error` if start failed")
_start(t) == IF t = "http" THEN {"return"} ELSE {"return", "throw"}

\* HttpServer._stop throws "Method not implemented."; an arbitrary transport
\* returns or throws
_stop(t) == IF t = "http" THEN {"throw"} ELSE {"return", "throw"}

NoDisconnect == [called |-> FALSE, isManual |-> FALSE, reason |-> ""]

VARIABLES
    transport,           \* which subclass implements _start/_stop
    _status,             \* BaseServer._status
    connections,         \* BaseServer.connections (a Set of conns)
    dataType,            \* conn.dataType of every connection object
    connStatus,          \* ConnectionStatus of every connection object
    disconnected,        \* last _disconnect(isManual, reason) made on a conn
    _pendingApiCallNum,  \* BaseServer._pendingApiCallNum
    _rsGracefulStop,     \* BaseServer._rsGracefulStop: "undefined" or "rs"
    starting,            \* number of start() calls that await _start()
    lastStart,           \* what the latest step of a start() call did
    stopping,            \* number of stop(g) calls that await their race
    lastStop,            \* the latest stop() call that finished
    _stopRuns,           \* runs of _stop() since the server last became Started
    bc,                  \* the broadcastMsg invocation
    callApiTimeout,      \* options.callApiTimeout of the HTTP client
    lastSN,              \* the last value of the client's SN counter
    calls,               \* the callApi invocations of the HTTP client
    apiTimeout,          \* options.apiCallTimeout of the server
    apiCalls,            \* the API calls the server handles
    serviceProto,        \* the ServiceProto an endpoint is constructed with
    endpoint,            \* the class constructed: "none", "client" or "server"
    serviceMap,          \* the ServiceMap the constructor built
    _apiHandlers,        \* BaseServer._apiHandlers, by API name
    impl,                \* the autoImplementApi invocation
    loaders,             \* by API name: the promise of its loadHandler(), its timer
    reqs,                \* the API requests the server receives
    server,              \* options.server of the HTTP client
    sends                \* the _sendData invocations of the HTTP client

\* the state of the server lifecycle
lifeVars == <<transport, _status, connections, dataType, connStatus, disconnected,
              _pendingApiCallNum, _rsGracefulStop, starting, lastStart, stopping,
              lastStop, _stopRuns>>

\* the state the lifecycle operations never touch
\* the state of the construction of an endpoint
protoVars == <<serviceProto, endpoint, serviceMap>>

\* the state of the API handlers of the server
implVars == <<_apiHandlers, impl, loaders, reqs>>

\* the state of the sends of the HTTP client
sendVars == <<server, sends>>

nonLifeVars == <<bc, callApiTimeout, lastSN, calls, apiTimeout, apiCalls, protoVars, implVars,
                 sendVars>>

\* the state of the API calls of the server
apiCallVars == <<apiTimeout, apiCalls>>

\* the state of the HTTP client
clientVars == <<callApiTimeout, lastSN, calls>>

\* the state broadcastMsg never touches
nonBcVars == <<lifeVars, clientVars, apiCallVars, protoVars, implVars, sendVars>>

\* the state the HTTP client never touches
nonClientVars == <<lifeVars, bc, apiCallVars, protoVars, implVars, sendVars>>

\* the state the handling of an API call never touches
nonApiCallVars == <<lifeVars, bc, clientVars, protoVars, implVars, sendVars>>

vars == <<transport, _status, connections, dataType, connStatus, disconnected,
          _pendingApiCallNum, _rsGracefulStop, starting, lastStart, stopping,
          lastStop, _stopRuns, bc, callApiTimeout, lastSN, calls, apiTimeout, apiCalls,
          serviceProto, endpoint, serviceMap, _apiHandlers, impl, loaders, reqs,
          server, sends>>

\* a stop() call that has finished: pc is "done" when _stop() returned and
\* "threw" when it threw; by tells what settled the race of a graceful stop
\* ("timer" or "rs"; "none" when the call did not wait)
NoStop == [pc |-> "none", graceful |-> FALSE, by |-> "none"]

\* bc.pre is what the latest flow execution returned: "value", or "null" when
\* a node of the flow aborted it
\* results of broadcastMsg: an OpResultVoid or the PROMISE_ABORTED sentinel;
\* `named` lists the connection ids the error message names
NoResult == [tag |-> "none", isSucc |-> FALSE, errMsg |-> "", named |-> <<>>]

OpSucc == [tag |-> "OpResult", isSucc |-> TRUE, errMsg |-> "", named |-> <<>>]

OpErr(msg) == [tag |-> "OpResult", isSucc |-> FALSE, errMsg |-> msg, named |-> <<>>]

PROMISE_ABORTED == [tag |-> "PROMISE_ABORTED", isSucc |-> FALSE, errMsg |-> "", named |-> <<>>]

IdleBc == [pc |-> "idle", atStatus |-> "Stopped", nTargets |-> 0, isAllConn |-> FALSE,
           msgName |-> "", conns |-> <<>>, connGroups |-> <<>>, gi |-> 0,
           preBroadcastMsgFlow |-> 0, encodeBody |-> 0, encodeBox |-> 0,
           preSendDataFlow |-> <<>>, reachedSend |-> FALSE, promiseSends |-> <<>>,
           postSendDataFlow |-> <<>>, succConns |-> <<>>, pre |-> "none",
           result |-> NoResult]

\* an API call the server handles:
\*   pc       "idle", "handling" (the handler runs) or "finished"
\*   timer    the timer of the API timeout: none, armed, fired, cleared
\*   replies  the call.succ / call.error the handler has made
\*   returns  the returns sent to the peer
IdleApiCall == [pc |-> "idle", timer |-> "none", replies |-> <<>>, returns |-> <<>>]

\* a callApi invocation of the HTTP client and its pending item:
\*   pc         "idle", "called" (SN drawn, item registered) or "sent"
\*   sn         the serial number of the call
\*   timeout    options.timeout of the call
\*   inRegistry whether _pendingCallApis holds the item
\*   isAborted, onAbort   the fields of the pending item (onAbort: is set)
\*   timer      the timeout timer of the call: none, armed, fired, cleared
\*   request    the HTTP request: none, inflight, aborted, settled
\*   reqTimeout the timeout the HTTP request was given
\*   apiName    the API the call was made for
\*   ret        how the promise of the request settled
\*   recv       whether _sendData attached the receiving handler
\*   sendData   what _sendData returned
\*   recvData   the response handed to _recvData: none, pending, done
\*   decode     what _decodeBoxText returned for the response
\*   apiReturns the returns the request's handling gave to _recvApiReturn
\*   rets       the values the caller's promise was resolved with
IdleCall == [pc |-> "idle", sn |-> 0, apiName |-> "", timeout |-> <<>>,
             inRegistry |-> FALSE,
             isAborted |-> FALSE, onAbort |-> FALSE, timer |-> "none",
             request |-> "none", reqTimeout |-> <<>>, ret |-> "none", recv |-> FALSE,
             sendData |-> "none", recvData |-> "none", decode |-> "none",
             apiReturns |-> <<>>, rets |-> <<>>]

\* -------------------------------------------------------------- ServiceMap

\* bounds of the protos an endpoint is constructed with
MaxServices == 2     \* services of a proto
MaxServiceId == 2    \* largest service id

ServiceIds == 1..MaxServiceId

\* names of services, with and without a path
ServiceNames == {"Chat", "a/b/Test"}

\* `side` of an ApiServiceDef
Sides == {"server", "client", "both"}

\* ApiServiceDef | MsgServiceDef
ServiceDefs ==
    [id : ServiceIds, name : ServiceNames, type : {"api"}, side : Sides]
        \cup [id : ServiceIds, name : ServiceNames, type : {"msg"}]

\* v.name.match(/(.+\/)?([^\/]+)$/): <<match[1] || '', match[2]>>
match(name) == IF name = "a/b/Test" THEN <<"a/b/", "Test">> ELSE <<"", name>>

\* `map[k] = v` on an object used as a map
put(m, k, v) == [x \in DOMAIN m \cup {k} |-> IF x = k THEN v ELSE m[x]]

\* the empty `{}` of every field of a new ServiceMap
EmptyMap == [x \in {} |-> x]

\* the ApiService built of an ApiServiceDef
ApiService(v) ==
    [id |-> v.id, name |-> v.name, type |-> v.type, side |-> v.side,
     reqSchemaId |-> match(v.name)[1] \o "Ptl" \o match(v.name)[2] \o "/Req" \o match(v.name)[2],
     resSchemaId |-> match(v.name)[1] \o "Ptl" \o match(v.name)[2] \o "/Res" \o match(v.name)[2]]

\* the MsgService built of a MsgServiceDef
MsgService(v) ==
    [id |-> v.id, name |-> v.name, type |-> v.type,
     msgSchemaId |-> match(v.name)[1] \o "Msg" \o match(v.name)[2] \o "/Msg" \o match(v.name)[2]]

\* one round of the loop of getServiceMap, on the service v
addService(map, v, side) ==
    IF v.type = "api"
    THEN [id2Service |-> put(map.id2Service, v.id, ApiService(v)),
          localApi |-> IF v.side = "both" \/ v.side = side
                       THEN put(map.localApi, v.name, ApiService(v)) ELSE map.localApi,
          remoteApi |-> IF v.side = "both" \/ v.side # side
                        THEN put(map.remoteApi, v.name, ApiService(v)) ELSE map.remoteApi,
          msg |-> map.msg]
    ELSE [id2Service |-> put(map.id2Service, v.id, MsgService(v)),
          localApi |-> map.localApi,
          remoteApi |-> map.remoteApi,
          msg |-> put(map.msg, v.name, MsgService(v))]

RECURSIVE getServiceMapFrom(_, _, _, _)
getServiceMapFrom(map, services, k, side) ==
    IF k > Len(services) THEN map
    ELSE getServiceMapFrom(addService(map, services[k], side), services, k + 1, side)

\* ServiceMapUtil.getServiceMap(proto, side); it has no throw
getServiceMap(proto, side) ==
    getServiceMapFrom([id2Service |-> EmptyMap, localApi |-> EmptyMap,
                       remoteApi |-> EmptyMap, msg |-> EmptyMap], proto, 1, side)

\* the `side` argument each constructor passes: BaseClient passes 'client',
\* BaseServer passes none
sideArg(e) == IF e = "client" THEN "client" ELSE "undefined"

\* the proto of the endpoints of the other specifications
TestProto == <<[id |-> 1, name |-> "Chat", type |-> "msg"]>>

\* an endpoint of class e constructed with TestProto
Constructed(e) ==
    /\ serviceProto = TestProto
    /\ endpoint = e
    /\ serviceMap = [isSucc |-> TRUE, map |-> getServiceMap(TestProto, sideArg(e))]

NoServiceMap == [isSucc |-> FALSE, map |-> "none"]

\* the names of the services of a proto are pairwise distinct
distinctNames(proto) ==
    \A j, k \in 1..Len(proto) : proto[j].name = proto[k].name => j = k

\* the ids of the services of a proto are pairwise distinct
distinctIds(proto) ==
    \A j, k \in 1..Len(proto) : proto[j].id = proto[k].id => j = k

\* ------------------------------------------------------------ API handlers

MaxApiReqs == 2      \* API requests the server receives

\* the `delay?: boolean | number` argument of autoImplementApi
DelayArgs == {"undefined", "true", "0", "100"}

\* `if (delay)`: undefined and 0 are falsy
delayTruthy(delay) == delay \in {"true", "100"}

\* `typeof delay === 'number' ? delay : undefined`, then `if (maxDelayTime)`
maxDelayTime(delay) == delay = "100"

\* an autoImplementApi invocation that has not begun
IdleImpl ==
    [pc |-> "idle", delay |-> "undefined", index |-> 0,
     output |-> [succ |-> <<>>, fail |-> <<>>, delay |-> <<>>]]

\* load is the promise of loadHandler(): "none" before the call; loads counts
\* the calls of loadHandler()
IdleLoader == [load |-> "none", loads |-> 0, timer |-> FALSE]

\* a server on which autoImplementApi has not been called: `_apiHandlers = {}`
NoAutoImplement ==
    /\ _apiHandlers = EmptyMap
    /\ impl = IdleImpl
    /\ loaders = EmptyMap
    /\ reqs = <<>>

\* ------------------------------------------------------- HTTP client sends

MaxSends == 1        \* _sendData invocations of the HTTP client

\* options.server, as the sequence of its parts: with and without a path,
\* with and without a '/' at its end
ServerUrls ==
    {<<"http://127.0.0.1:3001">>, <<"http://127.0.0.1:3001", "/">>,
     <<"http://127.0.0.1:3001", "/", "api">>, <<"http://127.0.0.1:3001", "/", "api", "/">>}

\* this.options.server.endsWith('/')
endsWith(s, part) == s[Len(s)] = part

\* a client that has sent nothing
NoSends ==
    /\ server = <<"http://127.0.0.1:3001">>
    /\ sends = <<>>

\* every connection has the dataType its transport gives it
dataTypeOf(c) == IF c % 2 = 1 THEN "text" ELSE "buffer"

Init ==
    /\ transport \in Transports
    /\ _status = "Stopped"
    /\ connections = {}
    /\ dataType = [c \in ConnIds |-> dataTypeOf(c)]
    /\ connStatus = [c \in ConnIds |-> "New"]
    /\ disconnected = [c \in ConnIds |-> NoDisconnect]
    /\ _pendingApiCallNum = 0
    /\ _rsGracefulStop = "undefined"
    /\ starting = 0
    /\ lastStart = "none"
    /\ stopping = 0
    /\ lastStop = NoStop
    /\ _stopRuns = 0
    /\ bc = IdleBc
    /\ callApiTimeout = <<>>
    /\ lastSN = 0
    /\ calls = [i \in CallIds |-> IdleCall]
    /\ apiTimeout = <<>>
    /\ apiCalls = [i \in ApiCallIds |-> IdleApiCall]
    /\ Constructed("server")
    /\ NoAutoImplement
    /\ NoSends

\* ------------------------------------------------------------- connections

\* conn['_setStatus'](s)
_setStatus(cs, c, s) == [cs EXCEPT ![c] = s]

\* conn['_disconnect'](isManual, reason) on every conn of the set C: the
\* connection becomes Disconnected and leaves the server's set
_disconnectStatus(cs, C) == [c \in ConnIds |-> IF c \in C THEN "Disconnected" ELSE cs[c]]

\* the calls conn['_disconnect'](isManual, reason) made on the conns of C
_disconnectLog(d, C, isManual, reason) ==
    [c \in ConnIds |-> IF c \in C
                       THEN [called |-> TRUE, isManual |-> isManual, reason |-> reason]
                       ELSE d[c]]

\* the mutation: only a stopped server turns a connection away
addConnection_onlyStopped(c) ==
    /\ connStatus[c] = "New"
    /\ lastStart # "none"
    /\ IF _status = "Stopped"
       THEN /\ connections' = (connections \cup {c}) \ {c}
            /\ connStatus' = _disconnectStatus(_setStatus(connStatus, c, "Connected"), {c})
            /\ disconnected' = _disconnectLog(disconnected, {c}, FALSE, "Server stopped")
       ELSE /\ connections' = connections \cup {c}
            /\ connStatus' = _setStatus(connStatus, c, "Connected")
            /\ UNCHANGED disconnected
    /\ UNCHANGED <<transport, _status, dataType, _pendingApiCallNum, _rsGracefulStop,
                   starting, lastStart, stopping, lastStop, _stopRuns>>
    /\ UNCHANGED nonLifeVars

\* addConnection(conn), called by the request listener that _start installs
addConnection(c) ==
    /\ connStatus[c] = "New"
    /\ lastStart # "none"
    /\ IF _status # "Started"
       THEN /\ connections' = (connections \cup {c}) \ {c}
            /\ connStatus' = _disconnectStatus(_setStatus(connStatus, c, "Connected"), {c})
            /\ disconnected' = _disconnectLog(disconnected, {c}, FALSE, "Server stopped")
       ELSE /\ connections' = connections \cup {c}
            /\ connStatus' = _setStatus(connStatus, c, "Connected")
            /\ UNCHANGED disconnected
    /\ UNCHANGED <<transport, _status, dataType, _pendingApiCallNum, _rsGracefulStop,
                   starting, lastStart, stopping, lastStop, _stopRuns>>
    /\ UNCHANGED nonLifeVars

\* ------------------------------------------------------------------- start

\* a start() that is also accepted while the server is stopping
canStart_whileStopping(s) == s \in {"Stopped", "Stopping"}

\* `this._status !== ServerStatus.Stopped` makes start() throw
canStart(s) == s = "Stopped"

\* start(): up to the await of _start(), or the throw of the status check
start ==
    /\ IF canStart(_status)
       THEN /\ starting < MaxStarts
            /\ _status' = "Starting"
            /\ starting' = starting + 1
            /\ lastStart' = "awaiting"
       ELSE /\ lastStart' = "rejected"
            /\ UNCHANGED <<_status, starting>>
    /\ UNCHANGED <<transport, connections, dataType, connStatus, disconnected,
                   _pendingApiCallNum, _rsGracefulStop, stopping, lastStop, _stopRuns>>
    /\ UNCHANGED nonLifeVars

\* start(): _start() resolved
startReturn ==
    /\ starting > 0
    /\ "return" \in _start(transport)
    /\ _status' = "Started"
    /\ starting' = starting - 1
    /\ lastStart' = "started"
    /\ _stopRuns' = 0
    /\ UNCHANGED <<transport, connections, dataType, connStatus, disconnected,
                   _pendingApiCallNum, _rsGracefulStop, stopping, lastStop>>
    /\ UNCHANGED nonLifeVars

\* start(): _start() threw, the error is rethrown to the caller
startThrow ==
    /\ starting > 0
    /\ "throw" \in _start(transport)
    /\ _status' = "Stopped"
    /\ starting' = starting - 1
    /\ lastStart' = "failed"
    /\ UNCHANGED <<transport, connections, dataType, connStatus, disconnected,
                   _pendingApiCallNum, _rsGracefulStop, stopping, lastStop, _stopRuns>>
    /\ UNCHANGED nonLifeVars

\* -------------------------------------------------------------------- stop

\* a hard stop that forgets to disconnect the connections
hardStop_keepsConns(fin) ==
    /\ _stopRuns < MaxStopRuns
    /\ _status' = "Stopped"
    /\ UNCHANGED <<connStatus, disconnected, connections>>
    /\ _stopRuns' = _stopRuns + 1
    /\ lastStop' = fin

\* "Do Stop (immediately)": the three statements that end stop(); fin.pc is
\* what _stop() did
hardStop(fin) ==
    /\ _stopRuns < MaxStopRuns
    /\ _status' = "Stopped"
    /\ connStatus' = _disconnectStatus(connStatus, connections)
    /\ disconnected' = _disconnectLog(disconnected, connections, TRUE, "Server stopped")
    /\ connections' = {}
    /\ _stopRuns' = _stopRuns + 1
    /\ lastStop' = fin

\* what `return this._stop()` makes of the stop() call
stopResult(r) == IF r = "return" THEN "done" ELSE "threw"

\* stop(gracefulWaitTime): up to the await of the race, or, without a grace
\* time, the whole call
stop(g) ==
    /\ IF Truthy(g)
       THEN /\ stopping < MaxStops
            /\ stopping' = stopping + 1
            /\ _status' = "Stopping"
            /\ _rsGracefulStop' = "rs"
            /\ connStatus' = [c \in ConnIds |-> IF c \in connections THEN "Disconnecting"
                                                 ELSE connStatus[c]]
            /\ UNCHANGED <<connections, disconnected, lastStop, _stopRuns>>
       ELSE /\ \E r \in _stop(transport) :
                   hardStop([pc |-> stopResult(r), graceful |-> FALSE, by |-> "none"])
            /\ UNCHANGED <<_rsGracefulStop, stopping>>
    /\ UNCHANGED <<transport, dataType, _pendingApiCallNum, starting, lastStart>>
    /\ UNCHANGED nonLifeVars

\* stop(): after the race: "Clear", then "Do Stop"; by is what settled the race
stopResume(by) ==
    /\ stopping > 0
    /\ stopping' = stopping - 1
    /\ _rsGracefulStop' = "undefined"
    /\ \E r \in _stop(transport) :
           hardStop([pc |-> stopResult(r), graceful |-> TRUE, by |-> by])

\* a stop(g) that goes on although nothing has settled its race
graceTimeout_noRace ==
    /\ stopResume("none")
    /\ UNCHANGED <<transport, dataType, _pendingApiCallNum, starting, lastStart>>
    /\ UNCHANGED nonLifeVars

\* setTimeout(rs, gracefulWaitTime) of a waiting stop(g) fires ("Max wait
\* time"): its race is settled and, no other task being queued, it resumes
graceTimeout ==
    /\ stopResume("timer")
    /\ UNCHANGED <<transport, dataType, _pendingApiCallNum, starting, lastStart>>
    /\ UNCHANGED nonLifeVars

\* ------------------------------------------------------------ API calls

\* an API request arrives on a connected connection
apiCallBegin(c) ==
    /\ c \in connections
    /\ connStatus[c] = "Connected"
    /\ _pendingApiCallNum < MaxPending
    /\ _pendingApiCallNum' = _pendingApiCallNum + 1
    /\ UNCHANGED <<transport, _status, connections, dataType, connStatus, disconnected,
                   _rsGracefulStop, starting, lastStart, stopping, lastStop, _stopRuns>>
    /\ UNCHANGED nonLifeVars

\* an API call has returned; the last one to return calls _rsGracefulStop,
\* which settles the race of the stop(g) that created it: that stop() resumes
\* in the microtask that follows
apiCallEnd ==
    /\ _pendingApiCallNum > 0
    /\ _pendingApiCallNum' = _pendingApiCallNum - 1
    /\ IF _pendingApiCallNum' = 0 /\ _rsGracefulStop = "rs"
       THEN stopResume("rs")
       ELSE UNCHANGED <<_status, connections, connStatus, disconnected, _rsGracefulStop,
                        stopping, lastStop, _stopRuns>>
    /\ UNCHANGED <<transport, dataType, starting, lastStart>>
    /\ UNCHANGED nonLifeVars

\* --------------------------------------------------------------- lifecycle
Next ==
    \/ start
    \/ startReturn
    \/ startThrow
    \/ \E g \in GraceArgs : stop(g)
    \/ graceTimeout
    \/ \E c \in ConnIds : addConnection(c)
    \/ \E c \in ConnIds : apiCallBegin(c)
    \/ apiCallEnd

Spec == Init /\ [][Next]_vars

TypeOK ==
    /\ _status \in ServerStatus
    /\ connections \subseteq ConnIds
    /\ _pendingApiCallNum \in 0..MaxPending
    /\ starting \in 0..MaxStarts
    /\ stopping \in 0..MaxStops
    /\ _stopRuns \in 0..MaxStopRuns
    /\ _rsGracefulStop = "rs" => stopping > 0

\* ------------------------------------------------------------ broadcastMsg

\* serviceMap.msgName2Service: "Chat" is a message of the proto, "Nope" is not
MsgNames == {"Chat", "Nope"}

msgName2Service(n) == n = "Chat"

\* a check that only rejects the broadcasts of a stopped server
notStarted_onlyStopped(s) == s = "Stopped"

\* `this._status !== ServerStatus.Started` rejects the broadcast
notStarted(s) == s # "Started"

\* the keys of conns.groupBy(v => v.dataType), in order of first appearance
RECURSIVE groupKeys(_, _)
groupKeys(conns, seen) ==
    IF conns = <<>> THEN <<>>
    ELSE LET t == dataType[Head(conns)] IN
         IF t \in seen THEN groupKeys(Tail(conns), seen)
         ELSE <<t>> \o groupKeys(Tail(conns), seen \cup {t})

\* a grouping that makes one group per connection
groupBy_perConn(conns) ==
    [i \in 1..Len(conns) |-> [conns |-> <<conns[i]>>, dataType |-> dataType[conns[i]],
                              data |-> "null"]]

\* conns.groupBy(v => v.dataType).map(v => ({conns: v, dataType: v.key, data: null}))
groupBy(conns) ==
    LET keys == groupKeys(conns, {}) IN
    [i \in 1..Len(keys) |->
        [conns |-> SelectSeq(conns, LAMBDA c : dataType[c] = keys[i]),
         dataType |-> keys[i], data |-> "null"]]

\* the mutation: every group gets the text encoding
encodeBox_text(t) == "BoxText"

\* the box produced for a group: encodeBoxBuffer / encodeBoxText
encodeBox(t) == IF t = "buffer" THEN "BoxBuffer" ELSE "BoxText"

\* preSendDataFlow executed for every connection of the group
preSendDataFlowExec_perConn(groupItem) ==
    [i \in 1..Len(groupItem.conns) |-> [conn |-> groupItem.conns[i], conns |-> groupItem.conns]]

\* the executions of preSendDataFlow made for one group ("run once only")
preSendDataFlowExec(groupItem) ==
    << [conn |-> Head(groupItem.conns), conns |-> groupItem.conns] >>

\* connGroups.forEach(...): the _sendData calls, group after group
RECURSIVE sendAll(_)
sendAll(groups) ==
    IF groups = <<>> THEN <<>>
    ELSE LET v == Head(groups) IN
         [i \in 1..Len(v.conns) |-> [conn |-> v.conns[i], data |-> v.data, op |-> "pending"]]
         \o sendAll(Tail(groups))

\* the encode loop from group gi on, up to its next await or return;
\* body and box tell whether the two encoders succeed for that group
encodeFrom(b, gi, body, box) ==
    IF gi > Len(b.connGroups)
    THEN [b EXCEPT !.pc = "sending", !.gi = gi, !.reachedSend = TRUE,
                   !.promiseSends = sendAll(b.connGroups),
                   !.postSendDataFlow = [k \in 1..Len(b.connGroups) |-> "pending"],
                   !.succConns = [k \in 1..Len(b.connGroups) |-> <<>>]]
    ELSE IF ~body
    THEN [b EXCEPT !.pc = "done", !.gi = gi, !.encodeBody = @ + 1,
                   !.result = OpErr("Encode msg to text error.")]
    ELSE IF ~box
    THEN [b EXCEPT !.pc = "done", !.gi = gi, !.encodeBody = @ + 1, !.encodeBox = @ + 1,
                   !.result = OpErr("Encode Box error.")]
    ELSE [b EXCEPT !.pc = "preSendDataFlow", !.gi = gi, !.encodeBody = @ + 1,
                   !.encodeBox = @ + 1,
                   !.preSendDataFlow = @ \o preSendDataFlowExec(b.connGroups[gi])]

\* the connection objects that exist
ConnObjects == {c \in ConnIds : connStatus[c] # "New"}

\* Array.from(this.connections): the set in some insertion order
ArrayFrom(S) == {cs \in [1..Cardinality(S) -> S] : Range(cs) = S}

\* broadcastMsg(msgName, msg, conns?): up to the await of preBroadcastMsgFlow
broadcastMsg(msgName, all, explicit) ==
    /\ bc.pc = "idle"
    /\ \E conns \in (IF all THEN ArrayFrom(connections) ELSE {explicit}) :
          LET b == [bc EXCEPT !.atStatus = _status, !.nTargets = Len(conns),
                              !.isAllConn = all, !.msgName = msgName, !.conns = conns]
          IN bc' = IF Len(conns) = 0
                   THEN [b EXCEPT !.pc = "done", !.result = OpSucc]
                   ELSE IF notStarted(_status)
                   THEN [b EXCEPT !.pc = "done", !.result = OpErr("Server is not started")]
                   ELSE [b EXCEPT !.pc = "preBroadcastMsgFlow", !.preBroadcastMsgFlow = @ + 1]
    /\ UNCHANGED nonBcVars

\* what a flow node may do to the target list: keep it or drop one target
FlowConns(conns) ==
    {conns} \cup {SelectSeq(conns, LAMBDA c : c # d) : d \in Range(conns)}

\* preBroadcastMsgFlow aborted
preBroadcastMsgFlowAbort ==
    /\ bc.pc = "preBroadcastMsgFlow"
    /\ bc' = [bc EXCEPT !.pc = "done", !.pre = "null", !.result = PROMISE_ABORTED]
    /\ UNCHANGED nonBcVars

\* preBroadcastMsgFlow returned `pre`: service lookup, grouping, and the encode
\* loop up to the first await
preBroadcastMsgFlowDone(msgName, conns, body, box) ==
    /\ bc.pc = "preBroadcastMsgFlow"
    /\ conns \in FlowConns(bc.conns)
    /\ LET b == [bc EXCEPT !.pre = "value", !.msgName = msgName, !.conns = conns] IN
       bc' = IF ~msgName2Service(msgName)
             THEN [b EXCEPT !.pc = "done", !.result = OpErr("Invalid msg name")]
             ELSE encodeFrom([b EXCEPT !.connGroups = groupBy(conns)], 1, body, box)
    /\ UNCHANGED nonBcVars

\* an aborted preSendDataFlow that is taken for a passed one
preSendDataFlowAbort_ignored ==
    /\ bc.pc = "preSendDataFlow"
    /\ bc' = encodeFrom([bc EXCEPT !.pre = "null",
                                   !.connGroups[bc.gi].data =
                                       encodeBox(bc.connGroups[bc.gi].dataType)],
                        bc.gi + 1, TRUE, TRUE)
    /\ UNCHANGED nonBcVars

\* preSendDataFlow of the current group aborted
preSendDataFlowAbort ==
    /\ bc.pc = "preSendDataFlow"
    /\ bc' = [bc EXCEPT !.pc = "done", !.pre = "null", !.result = PROMISE_ABORTED]
    /\ UNCHANGED nonBcVars

\* preSendDataFlow of the current group passed: keep the data, go on with the
\* next group or send
preSendDataFlowDone(body, box) ==
    /\ bc.pc = "preSendDataFlow"
    /\ bc' = encodeFrom([bc EXCEPT !.pre = "value",
                                   !.connGroups[bc.gi].data =
                                       encodeBox(bc.connGroups[bc.gi].dataType)],
                        bc.gi + 1, body, box)
    /\ UNCHANGED nonBcVars

\* the _sendData promise of the i-th send settles
sendDataDone(i, isSucc) ==
    /\ bc.pc = "sending"
    /\ i \in 1..Len(bc.promiseSends)
    /\ bc.promiseSends[i].op = "pending"
    /\ bc' = [bc EXCEPT !.promiseSends[i].op = IF isSucc THEN "succ" ELSE "fail"]
    /\ UNCHANGED nonBcVars

\* the index range of group k inside promiseSends
RECURSIVE groupOffset(_, _)
groupOffset(groups, k) ==
    IF k <= 1 THEN 0 ELSE Len(groups[k - 1].conns) + groupOffset(groups, k - 1)

\* the mutation: the flow is given every connection of the group
postSendDataFlow_allConns(k) ==
    /\ bc.pc = "sending"
    /\ k \in 1..Len(bc.connGroups)
    /\ bc.postSendDataFlow[k] = "pending"
    /\ LET off == groupOffset(bc.connGroups, k)
           n == Len(bc.connGroups[k].conns)
       IN /\ \A i \in 1..n : bc.promiseSends[off + i].op # "pending"
          /\ bc' = [bc EXCEPT !.postSendDataFlow[k] = "exec",
                              !.succConns[k] = bc.connGroups[k].conns]
    /\ UNCHANGED nonBcVars

\* Promise.all(promises).then(...) of group k: "Post SendData Flow (run once
\* only)"; succConns are the conns of the group whose send succeeded, and the
\* flow is executed with them unless there is none
postSendDataFlow(k) ==
    /\ bc.pc = "sending"
    /\ k \in 1..Len(bc.connGroups)
    /\ bc.postSendDataFlow[k] = "pending"
    /\ LET off == groupOffset(bc.connGroups, k)
           n == Len(bc.connGroups[k].conns)
           ops == [i \in 1..n |-> bc.promiseSends[off + i].op]
           filterIndex == SelectSeq([i \in 1..n |-> i], LAMBDA i : ops[i] = "succ")
           succConns == [j \in 1..Len(filterIndex) |-> bc.connGroups[k].conns[filterIndex[j]]]
       IN /\ \A i \in 1..n : ops[i] # "pending"
          /\ bc' = [bc EXCEPT !.postSendDataFlow[k] =
                                  IF Len(succConns) > 0 THEN "exec" ELSE "skipped",
                              !.succConns[k] = succConns]
    /\ UNCHANGED nonBcVars

\* a merge that reports success as soon as one send succeeded
broadcastReturn_anySucc ==
    /\ bc.pc = "sending"
    /\ \A i \in 1..Len(bc.promiseSends) : bc.promiseSends[i].op # "pending"
    /\ \A k \in 1..Len(bc.connGroups) : bc.postSendDataFlow[k] # "pending"
    /\ bc' = [bc EXCEPT !.pc = "done",
                        !.result = IF \E i \in 1..Len(bc.promiseSends) :
                                          bc.promiseSends[i].op = "succ"
                                   THEN OpSucc
                                   ELSE [OpErr("Conn$id: errMsg") EXCEPT !.named = bc.conns]]
    /\ UNCHANGED nonBcVars

\* Promise.all(promiseSends).then(...): "Merge errMsgs and return"
broadcastReturn ==
    /\ bc.pc = "sending"
    /\ \A i \in 1..Len(bc.promiseSends) : bc.promiseSends[i].op # "pending"
    /\ \A k \in 1..Len(bc.connGroups) : bc.postSendDataFlow[k] # "pending"
    /\ LET failed == SelectSeq([i \in 1..Len(bc.promiseSends) |-> i],
                               LAMBDA i : bc.promiseSends[i].op = "fail")
           errMsgs == [j \in 1..Len(failed) |-> bc.conns[failed[j]]]
       IN bc' = [bc EXCEPT !.pc = "done",
                           !.result = IF Len(errMsgs) > 0
                                      THEN [OpErr("Conn$id: errMsg") EXCEPT !.named = errMsgs]
                                      ELSE OpSucc]
    /\ UNCHANGED nonBcVars

\* the server state a broadcast is made in: the connections E were accepted
\* and the server is then in status s: still Starting (the connections were
\* turned away), Started, Stopping (stop(100) is waiting) or Stopped (after
\* stop()); each of these states is reached by start, addConnection and stop
ServerState(s, E) ==
    /\ transport = "abstract"
    /\ _status = s
    /\ connections = IF s \in {"Started", "Stopping"} THEN E ELSE {}
    /\ connStatus = [c \in ConnIds |->
                        IF c \notin E THEN "New"
                        ELSE IF s = "Started" THEN "Connected"
                        ELSE IF s = "Stopping" THEN "Disconnecting"
                        ELSE "Disconnected"]
    /\ disconnected = [c \in ConnIds |->
                        IF c \in E /\ s \in {"Starting", "Stopped"}
                        THEN [called |-> TRUE, isManual |-> (s = "Stopped"),
                              reason |-> "Server stopped"]
                        ELSE NoDisconnect]
    /\ _pendingApiCallNum = 0
    /\ _rsGracefulStop = IF s = "Stopping" THEN "rs" ELSE "undefined"
    /\ starting = IF s = "Starting" THEN 1 ELSE 0
    /\ lastStart = IF s = "Starting" THEN "awaiting" ELSE "started"
    /\ stopping = IF s = "Stopping" THEN 1 ELSE 0
    /\ lastStop = IF s = "Stopped" THEN [NoStop EXCEPT !.pc = "done"] ELSE NoStop
    /\ _stopRuns = IF s = "Stopped" THEN 1 ELSE 0

InitBroadcast ==
    /\ \E s \in ServerStatus, E \in SUBSET ConnIds : ServerState(s, E)
    /\ dataType \in [ConnIds -> DataTypes]
    /\ bc = IdleBc
    /\ callApiTimeout = <<>>
    /\ lastSN = 0
    /\ calls = [i \in CallIds |-> IdleCall]
    /\ apiTimeout = <<>>
    /\ apiCalls = [i \in ApiCallIds |-> IdleApiCall]
    /\ Constructed("server")
    /\ NoAutoImplement
    /\ NoSends

NextBroadcast ==
    \/ \E n \in MsgNames : broadcastMsg(n, TRUE, <<>>)
    \/ \E n \in MsgNames, cs \in SeqsUpTo(ConnObjects, MaxTargets) : broadcastMsg(n, FALSE, cs)
    \/ preBroadcastMsgFlowAbort
    \/ \E n \in MsgNames, cs \in SeqsUpTo(ConnObjects, MaxTargets), body, box \in BOOLEAN :
           preBroadcastMsgFlowDone(n, cs, body, box)
    \/ preSendDataFlowAbort
    \/ \E body, box \in BOOLEAN : preSendDataFlowDone(body, box)
    \/ \E i \in 1..(MaxTargets + MaxConns), isSucc \in BOOLEAN : sendDataDone(i, isSucc)
    \/ \E k \in 1..2 : postSendDataFlow(k)
    \/ broadcastReturn

SpecBroadcast == InitBroadcast /\ [][NextBroadcast]_vars

\* ------------------------------------------------------------- HTTP client

\* TransportOptions.timeout of a call: <<>> is undefined, <<t>> is t ms
TimeoutArgs == {<<>>, <<0>>, <<100>>}

\* options.callApiTimeout of the client
CallApiTimeouts == {<<>>, <<200>>}

\* how the promise of an HTTP request settles: a response whose body is JSON
\* or not, {isSucc: false, err} for a refused connection or for the timeout
\* the request was given, or a rejection
RequestRets == {"json", "garbage", "err", "timeout", "reject"}

\* the ways a request fails
RequestFailures == {"err", "timeout", "reject"}

\* a counter that stays at its largest value
getNext_saturate(last) == IF last >= CounterMax THEN last ELSE last + 1

\* Counter.getNext(): increasing, wraps at max to 1
getNext(last) == IF last >= CounterMax THEN 1 ELSE last + 1

\* `timeout: options?.timeout || this.options.callApiTimeout`
requestTimeout(t, d) == IF Truthy(t) THEN t ELSE d

\* the timeout of the pending call: options.timeout ?? options.callApiTimeout
callTimeout(t, d) == IF t # <<>> THEN t ELSE d

\* the ApiReturn values a caller is resolved with
ApiReturnSucc == [isSucc |-> TRUE, message |-> "", code |-> "", type |-> ""]

ApiReturnErr(message, code, type) ==
    [isSucc |-> FALSE, message |-> message, code |-> code, type |-> type]

RequestTimeout == ApiReturnErr("Request Timeout", "TIMEOUT", "NetworkError")

\* the err of a failed request: the transport's NetworkError, or the
\* LocalError that wraps the message of a rejection
requestErr(ret) ==
    IF ret = "reject" THEN ApiReturnErr("e.message", "", "LocalError")
    ELSE IF ret = "timeout" THEN RequestTimeout
    ELSE ApiReturnErr("connect ECONNREFUSED", "ECONNREFUSED", "NetworkError")

\* this._pendingCallApis
_pendingCallApis == {i \in CallIds : calls[i].inRegistry}

\* _pendingCallApis.get(sn): the pending items registered under sn (at most one)
get(cs, sn) == {k \in CallIds : cs[k].inRegistry /\ cs[k].sn = sn}

\* the pending item leaves the registry and its timer is deactivated
delete(c) ==
    [c EXCEPT !.inRegistry = FALSE,
              !.timer = IF @ = "armed" THEN "cleared" ELSE @]

\* pendingItem.onAbort?.(): the hook that _sendData installed aborts the request
onAbort(c) ==
    IF c.onAbort /\ c.request = "inflight" THEN [c EXCEPT !.request = "aborted"] ELSE c

\* a settle that leaves the pending item in the registry
settle_keepsPending(cs, ret) ==
    [k \in CallIds |->
        IF k \in get(cs, ret.sn) THEN [cs[k] EXCEPT !.rets = Append(@, ret.ret)] ELSE cs[k]]

\* the pending call registered under ret.sn is settled with the return: it
\* leaves the registry and its caller is resolved; an unknown SN is a no-op
settle(cs, ret) ==
    [k \in CallIds |->
        IF k \in get(cs, ret.sn) THEN [delete(cs[k]) EXCEPT !.rets = Append(@, ret.ret)]
        ELSE cs[k]]

\* _recvApiReturn(transportData), called for the request of call i
_recvApiReturn(cs, i, ret) == settle([cs EXCEPT ![i].apiReturns = Append(@, ret)], ret)

\* a decoder that does not look the pending call up
_decodeBoxText_noLookup(cs, reqSn, data) ==
    IF data = "garbage" THEN "Response body is not a valid JSON." ELSE "res"

\* _decodeBoxText(data, pendingCallApis, skipValidate, reqSn, resHeaders)
_decodeBoxText(cs, reqSn, data) ==
    IF get(cs, reqSn) = {} THEN "Invalid SN"
    ELSE IF data = "garbage" THEN "Response body is not a valid JSON."
    ELSE "res"

\* a decoder that takes the oldest pending item, whatever its SN
decodedRes_oldestPending(cs, reqSn) ==
    LET pendingApi == cs[CHOOSE k \in CallIds :
                            /\ cs[k].inRegistry
                            /\ \A j \in CallIds : cs[j].inRegistry => k <= j]
    IN [type |-> "res", serviceName |-> pendingApi.apiName,
        sn |-> pendingApi.sn, ret |-> ApiReturnSucc]

\* the TransportData that _decodeBoxText makes of a body that is JSON: the
\* serviceName is the apiName of the pending item found under reqSn, the sn
\* is reqSn
decodedRes(cs, reqSn) ==
    [type |-> "res", serviceName |-> cs[CHOOSE k \in get(cs, reqSn) : TRUE].apiName,
     sn |-> reqSn, ret |-> ApiReturnSucc]

\* a receiving handler without the catch: a rejection is not delivered
recvHandler_noCatch(cs, i, ret) ==
    IF ret = "reject" THEN cs
    ELSE IF ret \in RequestFailures
    THEN _recvApiReturn(cs, i, [type |-> "err", sn |-> cs[i].sn, ret |-> requestErr(ret)])
    ELSE [cs EXCEPT ![i].recvData = "pending"]

\* promise.catch(e => ({isSucc: false, err: LocalError})).then(ret => ...):
\* a failure goes to _recvApiReturn as an 'err' return with the SN of the
\* request, a response goes to _recvData
recvHandler(cs, i, ret) ==
    IF ret \in RequestFailures
    THEN _recvApiReturn(cs, i, [type |-> "err", sn |-> cs[i].sn, ret |-> requestErr(ret)])
    ELSE [cs EXCEPT ![i].recvData = "pending"]

\* the API that the i-th callApi invocation of the program calls
apiNameOf(i) == IF i % 2 = 1 THEN "a/b/Test" ELSE "Chat"

\* callApi(apiName, req, options): the SN is drawn, the pending item is
\* registered (an item already registered under the SN is replaced) and the
\* timer of the call is armed
callApi(t) ==
    /\ \E i \in CallIds :
          /\ calls[i].pc = "idle"
          /\ \A j \in CallIds : j < i => calls[j].pc # "idle"
          /\ LET sn == getNext(lastSN) IN
             /\ lastSN' = sn
             /\ calls' = [k \in CallIds |->
                   IF k = i
                   THEN [IdleCall EXCEPT !.pc = "called", !.sn = sn, !.timeout = t,
                                         !.apiName = apiNameOf(i),
                                         !.inRegistry = TRUE,
                                         !.timer = IF Truthy(callTimeout(t, callApiTimeout))
                                                   THEN "armed" ELSE "none"]
                   ELSE IF k \in get(calls, sn) THEN delete(calls[k])
                   ELSE calls[k]]
    /\ UNCHANGED callApiTimeout
    /\ UNCHANGED nonClientVars

\* _sendData(data, transportData, options) for the req of call i
_sendData(i) ==
    /\ calls[i].pc = "called"
    /\ LET pendingCallApiItem == get(calls, calls[i].sn)
           sent == [calls EXCEPT ![i].pc = "sent", ![i].request = "inflight",
                                 ![i].reqTimeout = requestTimeout(calls[i].timeout,
                                                                  callApiTimeout)]
           hooked == [k \in CallIds |->
                        IF k \in pendingCallApiItem THEN [sent[k] EXCEPT !.onAbort = TRUE]
                        ELSE sent[k]]
       IN calls' = IF pendingCallApiItem = {}
                   THEN [hooked EXCEPT ![i].sendData = "isSucc"]
                   ELSE IF \E k \in pendingCallApiItem : hooked[k].isAborted
                   THEN [hooked EXCEPT ![i].sendData = "PROMISE_ABORTED"]
                   ELSE [hooked EXCEPT ![i].recv = TRUE, ![i].sendData = "isSucc"]
    /\ UNCHANGED <<callApiTimeout, lastSN>>
    /\ UNCHANGED nonClientVars

\* an abort that leaves the pending item in the registry
abort_keepsPending(i) ==
    /\ calls[i].pc # "idle"
    /\ get(calls, calls[i].sn) # {}
    /\ calls' = [k \in CallIds |->
                    IF k \in get(calls, calls[i].sn)
                    THEN onAbort([calls[k] EXCEPT !.isAborted = TRUE])
                    ELSE calls[k]]
    /\ UNCHANGED <<callApiTimeout, lastSN>>
    /\ UNCHANGED nonClientVars

\* abort(sn) with the SN of call i: the pending item leaves the registry, is
\* marked isAborted and its onAbort is invoked; an unknown SN is a no-op
abort(i) ==
    /\ calls[i].pc # "idle"
    /\ get(calls, calls[i].sn) # {}
    /\ calls' = [k \in CallIds |->
                    IF k \in get(calls, calls[i].sn)
                    THEN onAbort([delete(calls[k]) EXCEPT !.isAborted = TRUE])
                    ELSE calls[k]]
    /\ UNCHANGED <<callApiTimeout, lastSN>>
    /\ UNCHANGED nonClientVars

\* a timer that resolves the caller and leaves the item in the registry
callTimeoutFire_keepsPending(i) ==
    /\ calls[i].timer = "armed"
    /\ calls' = [calls EXCEPT ![i] = onAbort([calls[i] EXCEPT
                                                 !.timer = "fired",
                                                 !.rets = Append(@, RequestTimeout)])]
    /\ UNCHANGED <<callApiTimeout, lastSN>>
    /\ UNCHANGED nonClientVars

\* the timer of call i fires while the call is pending: the call is settled
\* with 'Request Timeout' and onAbort cancels the request
callTimeoutFire(i) ==
    /\ calls[i].timer = "armed"
    /\ calls' = [calls EXCEPT ![i] = onAbort([calls[i] EXCEPT
                                                 !.inRegistry = FALSE,
                                                 !.timer = "fired",
                                                 !.rets = Append(@, RequestTimeout)])]
    /\ UNCHANGED <<callApiTimeout, lastSN>>
    /\ UNCHANGED nonClientVars

\* the promise of the HTTP request of call i settles (an aborted request may
\* settle too) and the receiving handler, if attached, runs
requestSettle(i, ret) ==
    /\ calls[i].request \in {"inflight", "aborted"}
    /\ ret = "timeout" => Truthy(calls[i].reqTimeout)
    /\ LET cs == [calls EXCEPT ![i].request = "settled", ![i].ret = ret] IN
       calls' = IF calls[i].recv THEN recvHandler(cs, i, ret) ELSE cs
    /\ UNCHANGED <<callApiTimeout, lastSN>>
    /\ UNCHANGED nonClientVars

\* _recvData(body, reqSn, headers) for the response of call i: the box is
\* decoded; a decoded return goes to _recvApiReturn, a body that is not JSON
\* settles the pending call with a LocalError, an invalid SN is dropped
_recvData(i) ==
    /\ calls[i].recvData = "pending"
    /\ LET op == _decodeBoxText(calls, calls[i].sn, calls[i].ret)
           cs == [calls EXCEPT ![i].recvData = "done", ![i].decode = op]
       IN calls' = IF op = "res"
                   THEN _recvApiReturn(cs, i, decodedRes(calls, calls[i].sn))
                   ELSE IF op = "Invalid SN" THEN cs
                   ELSE settle(cs, [type |-> "err", sn |-> cs[i].sn,
                                    ret |-> ApiReturnErr(op, "", "LocalError")])
    /\ UNCHANGED <<callApiTimeout, lastSN>>
    /\ UNCHANGED nonClientVars

\* a client with its options, whose counter is fresh or close to its largest
\* value, on a server that is not started
InitClient ==
    /\ transport = "http"
    /\ _status = "Stopped"
    /\ connections = {}
    /\ dataType = [c \in ConnIds |-> dataTypeOf(c)]
    /\ connStatus = [c \in ConnIds |-> "New"]
    /\ disconnected = [c \in ConnIds |-> NoDisconnect]
    /\ _pendingApiCallNum = 0
    /\ _rsGracefulStop = "undefined"
    /\ starting = 0
    /\ lastStart = "none"
    /\ stopping = 0
    /\ lastStop = NoStop
    /\ _stopRuns = 0
    /\ bc = IdleBc
    /\ callApiTimeout \in CallApiTimeouts
    /\ lastSN \in {0, CounterMax - 1}
    /\ calls = [i \in CallIds |-> IdleCall]
    /\ apiTimeout = <<>>
    /\ apiCalls = [i \in ApiCallIds |-> IdleApiCall]
    /\ Constructed("client")
    /\ NoAutoImplement
    /\ NoSends

NextClient ==
    \/ \E t \in TimeoutArgs : callApi(t)
    \/ \E i \in CallIds : _sendData(i)
    \/ \E i \in CallIds : abort(i)
    \/ \E i \in CallIds : callTimeoutFire(i)
    \/ \E i \in CallIds, ret \in RequestRets : requestSettle(i, ret)
    \/ \E i \in CallIds : _recvData(i)

SpecClient == InitClient /\ [][NextClient]_vars

\* ------------------------------------------------ BaseHttpClient._sendData

\* the transportData a client sends: a req or a msg carries its serviceName,
\* a custom has none (read as '')
SendTypes == {"req", "msg", "custom"}

serviceNamesOf(type) == IF type = "custom" THEN {""} ELSE ServiceNames

\* typeof data: text is a string, binary is a Uint8Array
DataKinds == {"string", "Uint8Array"}

\* the mutation: the '/' is always put before the service name
url_alwaysSlash(srv, data, serviceName) ==
    IF data = "string" /\ serviceName # ""
    THEN srv \o <<"/">> \o <<serviceName>>
    ELSE srv

\* `const url` of _sendData
url(srv, data, serviceName) ==
    IF data = "string" /\ serviceName # ""
    THEN srv \o (IF endsWith(srv, "/") THEN <<>> ELSE <<"/">>) \o <<serviceName>>
    ELSE srv

\* the mutation: the send is not resolved when the request is handed over
sendData_awaitsResponse(type, serviceName, data, t, item) ==
    /\ Len(sends) < MaxSends
    /\ serviceName \in serviceNamesOf(type)
    /\ item => type = "req"
    /\ sends' = Append(sends,
                    [type |-> type, serviceName |-> serviceName, data |-> data,
                     url |-> url(server, data, serviceName),
                     contentType |-> IF data = "string" THEN "application/json"
                                     ELSE "application/octet-stream",
                     xDataType |-> IF type \in {"msg", "custom"} THEN type ELSE "",
                     reqTimeout |-> requestTimeout(t, callApiTimeout),
                     onAbort |-> item, recv |-> item, request |-> "inflight",
                     result |-> "none"])
    /\ UNCHANGED server
    /\ UNCHANGED <<lifeVars, bc, clientVars, apiCallVars, protoVars, implVars>>

\* a _sendData(data, transportData, options); item tells whether the pending
\* item of a req is in the registry (it is not once the call was aborted or
\* timed out), t is options.timeout
sendData(type, serviceName, data, t, item) ==
    /\ Len(sends) < MaxSends
    /\ serviceName \in serviceNamesOf(type)
    /\ item => type = "req"
    /\ sends' = Append(sends,
                    [type |-> type, serviceName |-> serviceName, data |-> data,
                     url |-> url(server, data, serviceName),
                     contentType |-> IF data = "string" THEN "application/json"
                                     ELSE "application/octet-stream",
                     xDataType |-> IF type \in {"msg", "custom"} THEN type ELSE "",
                     reqTimeout |-> requestTimeout(t, callApiTimeout),
                     onAbort |-> item, recv |-> item, request |-> "inflight",
                     result |-> "isSucc"])
    /\ UNCHANGED server
    /\ UNCHANGED <<lifeVars, bc, clientVars, apiCallVars, protoVars, implVars>>

\* the promise of the HTTP request of send k settles; only the receiving
\* handler of a pending req looks at it
sendRequestSettle(k, ret) ==
    /\ k \in 1..Len(sends)
    /\ sends[k].request = "inflight"
    /\ sends' = [sends EXCEPT ![k].request = ret]
    /\ UNCHANGED server
    /\ UNCHANGED <<lifeVars, bc, clientVars, apiCallVars, protoVars, implVars>>

\* a client with its options, before any send
InitSendData ==
    /\ transport = "http"
    /\ _status = "Stopped"
    /\ connections = {}
    /\ dataType = [c \in ConnIds |-> dataTypeOf(c)]
    /\ connStatus = [c \in ConnIds |-> "New"]
    /\ disconnected = [c \in ConnIds |-> NoDisconnect]
    /\ _pendingApiCallNum = 0
    /\ _rsGracefulStop = "undefined"
    /\ starting = 0
    /\ lastStart = "none"
    /\ stopping = 0
    /\ lastStop = NoStop
    /\ _stopRuns = 0
    /\ bc = IdleBc
    /\ callApiTimeout \in CallApiTimeouts
    /\ lastSN = 0
    /\ calls = [i \in CallIds |-> IdleCall]
    /\ apiTimeout = <<>>
    /\ apiCalls = [i \in ApiCallIds |-> IdleApiCall]
    /\ Constructed("client")
    /\ NoAutoImplement
    /\ server \in ServerUrls
    /\ sends = <<>>

NextSendData ==
    \/ \E type \in SendTypes, n \in ServiceNames \cup {""}, data \in DataKinds,
          t \in TimeoutArgs, item \in BOOLEAN : sendData(type, n, data, t, item)
    \/ \E k \in 1..MaxSends, ret \in {"succ", "err"} : sendRequestSettle(k, ret)

SpecSendData == InitSendData /\ [][NextSendData]_vars

\* ------------------------------------------------------- server API calls

\* options.apiCallTimeout of the server: <<>> is undefined
ApiTimeouts == {<<>>, <<100>>}

\* what a handler replies with: call.succ(res) or call.error(message)
Replies == {"succ", "error"}

\* the return a reply makes
replyReturn(r) ==
    IF r = "succ" THEN ApiReturnSucc ELSE ApiReturnErr("message", "", "ApiError")

ServerTimeout == ApiReturnErr("Server Timeout", "SERVER_TIMEOUT", "ServerError")

\* a request arrives: the handler of the API is started and the timer of the
\* API timeout is armed
recvApiCall(i) ==
    /\ apiCalls[i].pc = "idle"
    /\ apiCalls' = [apiCalls EXCEPT ![i].pc = "handling",
                                    ![i].timer = IF Truthy(apiTimeout) THEN "armed"
                                                 ELSE "none"]
    /\ UNCHANGED apiTimeout
    /\ UNCHANGED nonApiCallVars

\* a reply that is sent although the call has already returned
callReturn_again(i, r) ==
    /\ apiCalls[i].pc = "handling"
    /\ Len(apiCalls[i].replies) < MaxReplies
    /\ apiCalls' = [apiCalls EXCEPT ![i].replies = Append(@, r),
                                    ![i].returns = Append(@, replyReturn(r)),
                                    ![i].timer = IF @ = "armed" THEN "cleared" ELSE @]
    /\ UNCHANGED apiTimeout
    /\ UNCHANGED nonApiCallVars

\* call.succ(res) / call.error(message) made by the handler: the return is
\* sent to the peer and the timer is cleared; a no-op once the call has returned
callReturn(i, r) ==
    /\ apiCalls[i].pc = "handling"
    /\ Len(apiCalls[i].replies) < MaxReplies
    /\ apiCalls' = IF apiCalls[i].returns # <<>>
                   THEN [apiCalls EXCEPT ![i].replies = Append(@, r)]
                   ELSE [apiCalls EXCEPT ![i].replies = Append(@, r),
                                         ![i].returns = Append(@, replyReturn(r)),
                                         ![i].timer = IF @ = "armed" THEN "cleared" ELSE @]
    /\ UNCHANGED apiTimeout
    /\ UNCHANGED nonApiCallVars

\* the API timeout elapses before the handler has replied: 'Server Timeout' is
\* returned to the peer; the handler keeps running
apiTimeoutFire(i) ==
    /\ apiCalls[i].timer = "armed"
    /\ apiCalls' = [apiCalls EXCEPT ![i].timer = "fired",
                                    ![i].returns = IF @ = <<>> THEN <<ServerTimeout>> ELSE @]
    /\ UNCHANGED apiTimeout
    /\ UNCHANGED nonApiCallVars

\* the promise of the handler resolves
handlerEnd(i) ==
    /\ apiCalls[i].pc = "handling"
    /\ apiCalls' = [apiCalls EXCEPT ![i].pc = "finished"]
    /\ UNCHANGED apiTimeout
    /\ UNCHANGED nonApiCallVars

\* a started server with its API timeout option, before any request
InitApiCall ==
    /\ ServerState("Started", {})
    /\ dataType = [c \in ConnIds |-> dataTypeOf(c)]
    /\ bc = IdleBc
    /\ callApiTimeout = <<>>
    /\ lastSN = 0
    /\ calls = [i \in CallIds |-> IdleCall]
    /\ apiTimeout \in ApiTimeouts
    /\ apiCalls = [i \in ApiCallIds |-> IdleApiCall]
    /\ Constructed("server")
    /\ NoAutoImplement
    /\ NoSends

NextApiCall ==
    \/ \E i \in ApiCallIds : recvApiCall(i)
    \/ \E i \in ApiCallIds, r \in Replies : callReturn(i, r)
    \/ \E i \in ApiCallIds : apiTimeoutFire(i)
    \/ \E i \in ApiCallIds : handlerEnd(i)

SpecApiCall == InitApiCall /\ [][NextApiCall]_vars

\* ------------------------------------------------- endpoint construction

\* new BaseClient(serviceProto, ...), up to the ServiceMap
BaseClient_constructor ==
    /\ endpoint = "none"
    /\ endpoint' = "client"
    /\ serviceMap' = [isSucc |-> TRUE, map |-> getServiceMap(serviceProto, "client")]
    /\ UNCHANGED serviceProto
    /\ UNCHANGED <<lifeVars, bc, clientVars, apiCallVars, implVars, sendVars>>

\* new BaseServer(serviceProto, ...), up to the ServiceMap
BaseServer_constructor ==
    /\ endpoint = "none"
    /\ endpoint' = "server"
    /\ serviceMap' = [isSucc |-> TRUE, map |-> getServiceMap(serviceProto, "undefined")]
    /\ UNCHANGED serviceProto
    /\ UNCHANGED <<lifeVars, bc, clientVars, apiCallVars, implVars, sendVars>>

\* any proto, before an endpoint is constructed with it
InitServiceMap ==
    /\ transport = "abstract"
    /\ _status = "Stopped"
    /\ connections = {}
    /\ connStatus = [c \in ConnIds |-> "New"]
    /\ disconnected = [c \in ConnIds |-> NoDisconnect]
    /\ _pendingApiCallNum = 0
    /\ _rsGracefulStop = "undefined"
    /\ starting = 0
    /\ lastStart = "none"
    /\ stopping = 0
    /\ lastStop = NoStop
    /\ _stopRuns = 0
    /\ dataType = [c \in ConnIds |-> dataTypeOf(c)]
    /\ bc = IdleBc
    /\ callApiTimeout = <<>>
    /\ lastSN = 0
    /\ calls = [i \in CallIds |-> IdleCall]
    /\ apiTimeout = <<>>
    /\ apiCalls = [i \in ApiCallIds |-> IdleApiCall]
    /\ serviceProto \in SeqsUpTo(ServiceDefs, MaxServices)
    /\ endpoint = "none"
    /\ serviceMap = NoServiceMap
    /\ NoAutoImplement
    /\ NoSends

NextServiceMap ==
    \/ BaseClient_constructor
    \/ BaseServer_constructor

SpecServiceMap == InitServiceMap /\ [][NextServiceMap]_vars

\* --------------------------------------------------------- autoImplementApi

\* Object.values(this.serviceMap.apiName2Service): the API services of the
\* proto, in the order of the proto
apiName2Service(proto) == SelectSeq(proto, LAMBDA v : v.type = "api")

apiServices == apiName2Service(serviceProto)

apiNames == {apiServices[k].name : k \in 1..Len(apiServices)}

\* this._apiHandlers[apiName]
handlerOf(apiName) ==
    IF apiName \in DOMAIN _apiHandlers THEN _apiHandlers[apiName] ELSE "undefined"

\* the promise of the loadHandler() of an API and the timer of its delay
\* wrapper, before either exists
loaderOf(l, apiName) == IF apiName \in DOMAIN l THEN l[apiName] ELSE IdleLoader

\* the mutation: loadHandler() is called again once the promise has settled
doGetHandler_reload(l, apiName) ==
    IF loaderOf(l, apiName).load = "pending" THEN l
    ELSE put(l, apiName, [loaderOf(l, apiName) EXCEPT !.load = "pending", !.loads = @ + 1])

\* doGetHandler() of the delay wrapper of an API: calls loadHandler() unless
\* promiseHandler is set
doGetHandler(l, apiName) ==
    IF loaderOf(l, apiName).load # "none" THEN l
    ELSE put(l, apiName, [loaderOf(l, apiName) EXCEPT !.load = "pending", !.loads = @ + 1])

\* _implementApiDelay(apiName, loadHandler, maxDelayTime) for the services
\* from the k-th on: the timer is set when maxDelayTime is truthy, the delay
\* wrapper is registered
RECURSIVE _implementApiDelay(_, _, _)
_implementApiDelay(hl, k, delay) ==
    IF k > Len(apiServices) THEN hl
    ELSE LET apiName == apiServices[k].name IN
         _implementApiDelay(
             [handlers |-> put(hl.handlers, apiName, "delayHandler"),
              loaders |-> put(hl.loaders, apiName,
                              [loaderOf(hl.loaders, apiName) EXCEPT !.timer = maxDelayTime(delay)])],
             k + 1, delay)

\* autoImplementApi(apiDir, delay) up to its first await: with a truthy delay
\* the loop has no await and the method returns; otherwise it awaits the
\* loadHandler() of the first service
autoImplementApi(delay) ==
    /\ impl.pc = "idle"
    /\ IF delayTruthy(delay)
       THEN LET hl == _implementApiDelay([handlers |-> _apiHandlers, loaders |-> loaders],
                                         1, delay)
            IN /\ _apiHandlers' = hl.handlers
               /\ loaders' = hl.loaders
               /\ impl' = [pc |-> "returned", delay |-> delay, index |-> Len(apiServices),
                           output |-> [succ |-> <<>>, fail |-> <<>>,
                                       delay |-> [k \in 1..Len(apiServices) |->
                                                     apiServices[k].name]]]
       ELSE IF apiServices = <<>>
       THEN /\ impl' = [impl EXCEPT !.pc = "returned", !.delay = delay]
            /\ UNCHANGED <<_apiHandlers, loaders>>
       ELSE /\ impl' = [impl EXCEPT !.pc = "loading", !.delay = delay, !.index = 1]
            /\ loaders' = put(loaders, apiServices[1].name, [IdleLoader EXCEPT !.load = "pending", !.loads = 1])
            /\ UNCHANGED _apiHandlers
    /\ UNCHANGED reqs
    /\ UNCHANGED <<lifeVars, bc, clientVars, apiCallVars, protoVars, sendVars>>

\* the mutation: a failed load is reported as a success
loadHandlerDone_allSucc(isSucc) ==
    /\ impl.pc = "loading"
    /\ LET apiName == apiServices[impl.index].name
           last == impl.index = Len(apiServices)
           loaded == put(loaders, apiName,
                         [loaders[apiName] EXCEPT !.load = IF isSucc THEN "succ" ELSE "fail"])
       IN /\ _apiHandlers' = put(_apiHandlers, apiName, "handler")
          /\ impl' = [impl EXCEPT !.output.succ = Append(@, apiName),
                                  !.pc = IF last THEN "returned" ELSE "loading",
                                  !.index = IF last THEN @ ELSE @ + 1]
          /\ loaders' = IF last THEN loaded
                        ELSE put(loaded, apiServices[impl.index + 1].name,
                                 [IdleLoader EXCEPT !.load = "pending", !.loads = 1])
    /\ UNCHANGED reqs
    /\ UNCHANGED <<lifeVars, bc, clientVars, apiCallVars, protoVars, sendVars>>

\* autoImplementApi after `await loadHandler()`: the handler is registered and
\* the name pushed to succ, or the name is pushed to fail; then the next
\* service is loaded, or the method returns
loadHandlerDone(isSucc) ==
    /\ impl.pc = "loading"
    /\ LET apiName == apiServices[impl.index].name
           last == impl.index = Len(apiServices)
           loaded == put(loaders, apiName,
                         [loaders[apiName] EXCEPT !.load = IF isSucc THEN "succ" ELSE "fail"])
       IN /\ _apiHandlers' = IF isSucc THEN put(_apiHandlers, apiName, "handler")
                             ELSE _apiHandlers
          /\ impl' = [impl EXCEPT !.output.succ = IF isSucc THEN Append(@, apiName) ELSE @,
                                  !.output.fail = IF isSucc THEN @ ELSE Append(@, apiName),
                                  !.pc = IF last THEN "returned" ELSE "loading",
                                  !.index = IF last THEN @ ELSE @ + 1]
          /\ loaders' = IF last THEN loaded
                        ELSE put(loaded, apiServices[impl.index + 1].name,
                                 [IdleLoader EXCEPT !.load = "pending", !.loads = 1])
    /\ UNCHANGED reqs
    /\ UNCHANGED <<lifeVars, bc, clientVars, apiCallVars, protoVars, sendVars>>

\* the setTimeout callback of _implementApiDelay
delayTimeout(apiName) ==
    /\ loaderOf(loaders, apiName).timer
    /\ loaders' = LET l == doGetHandler(loaders, apiName)
                  IN put(l, apiName, [l[apiName] EXCEPT !.timer = FALSE])
    /\ UNCHANGED <<_apiHandlers, impl, reqs>>
    /\ UNCHANGED <<lifeVars, bc, clientVars, apiCallVars, protoVars, sendVars>>

\* a request of an API of the proto arrives and the handler registered for
\* its name is called: none (the request is left to the connection), a loaded
\* handler, or the delay wrapper, which calls doGetHandler() and waits;
\* failed tells whether the load of the handler of the API has failed
recvApiReq(apiName) ==
    /\ Len(reqs) < MaxApiReqs
    /\ apiName \in apiNames
    /\ LET failed == loaderOf(loaders, apiName).load = "fail"
       IN CASE handlerOf(apiName) = "undefined" ->
                   /\ reqs' = Append(reqs, [pc |-> "unhandled", api |-> apiName, by |-> "none",
                                            reply |-> "none", failed |-> failed])
                   /\ UNCHANGED loaders
            [] handlerOf(apiName) = "handler" ->
                   /\ reqs' = Append(reqs, [pc |-> "answered", api |-> apiName, by |-> "handler",
                                            reply |-> "handler", failed |-> failed])
                   /\ UNCHANGED loaders
            [] handlerOf(apiName) = "delayHandler" ->
                   /\ reqs' = Append(reqs, [pc |-> "waiting", api |-> apiName,
                                            by |-> "delayHandler", reply |-> "none",
                                            failed |-> failed])
                   /\ loaders' = doGetHandler(loaders, apiName)
    /\ UNCHANGED <<_apiHandlers, impl>>
    /\ UNCHANGED <<lifeVars, bc, clientVars, apiCallVars, protoVars, sendVars>>

\* the promise of a delayed loadHandler() settles: first the callback of
\* doGetHandler (the handler becomes undefined and, on success, the loaded
\* handler is registered by implementApi), then the callback of every
\* waiting delay wrapper (_errorNotImplemented, or the loaded handler)
delayLoadDone(apiName, isSucc) ==
    /\ impl.pc = "returned"
    /\ delayTruthy(impl.delay)
    /\ loaderOf(loaders, apiName).load = "pending"
    /\ loaders' = [loaders EXCEPT ![apiName].load = IF isSucc THEN "succ" ELSE "fail"]
    /\ _apiHandlers' = put(_apiHandlers, apiName, IF isSucc THEN "handler" ELSE "undefined")
    /\ reqs' = [r \in 1..Len(reqs) |->
                   IF reqs[r].pc = "waiting" /\ reqs[r].api = apiName
                   THEN [reqs[r] EXCEPT !.pc = "answered",
                                        !.reply = IF isSucc THEN "handler" ELSE "NOT_IMPLEMENTED",
                                        !.failed = ~isSucc]
                   ELSE reqs[r]]
    /\ UNCHANGED impl
    /\ UNCHANGED <<lifeVars, bc, clientVars, apiCallVars, protoVars, sendVars>>

\* the protos of a server: services with distinct names and ids
ServerProtos ==
    {proto \in SeqsUpTo({v \in ServiceDefs : v.type = "api" => v.side = "server"}, MaxServices) :
        distinctNames(proto) /\ distinctIds(proto)}

\* a started server constructed with any proto, before autoImplementApi
InitAutoImplement ==
    /\ ServerState("Started", {})
    /\ dataType = [c \in ConnIds |-> dataTypeOf(c)]
    /\ bc = IdleBc
    /\ callApiTimeout = <<>>
    /\ lastSN = 0
    /\ calls = [i \in CallIds |-> IdleCall]
    /\ apiTimeout = <<>>
    /\ apiCalls = [i \in ApiCallIds |-> IdleApiCall]
    /\ serviceProto \in ServerProtos
    /\ endpoint = "server"
    /\ serviceMap = [isSucc |-> TRUE, map |-> getServiceMap(serviceProto, sideArg("server"))]
    /\ NoAutoImplement
    /\ NoSends

NextAutoImplement ==
    \/ \E delay \in DelayArgs : autoImplementApi(delay)
    \/ \E isSucc \in BOOLEAN : loadHandlerDone(isSucc)
    \/ \E a \in ServiceNames : delayTimeout(a)
    \/ \E a \in ServiceNames : recvApiReq(a)
    \/ \E a \in ServiceNames, isSucc \in BOOLEAN : delayLoadDone(a, isSucc)

SpecAutoImplement == InitAutoImplement /\ [][NextAutoImplement]_vars

\* ------------------------------------------------------------------ claims

\* the status changes of the server state machine of the specification
StatusTransitions ==
    {<<"Stopped", "Starting">>, <<"Starting", "Started">>, <<"Started", "Stopping">>,
     <<"Stopping", "Stopped">>, <<"Starting", "Stopped">>}

\* C1: under any interleaving of start() and stop() calls, every change of the
\* server status is Stopped -> Starting, Starting -> Started, Started ->
\* Stopping, Stopping -> Stopped or Starting -> Stopped.
C1_OnlyListedTransitions ==
    [][_status' # _status => <<_status, _status'>> \in StatusTransitions]_vars

\* C2: a start() called while the status is not Stopped fails, does not run
\* _start and leaves the status unchanged.
C2_StartRequiresStopped ==
    [][(_status # "Stopped"
          /\ (starting' > starting
                \/ (lastStart' # lastStart /\ lastStart' \in {"awaiting", "rejected"})))
          => /\ lastStart' = "rejected"
             /\ starting' = starting
             /\ _status' = _status]_vars

\* a start() was called on a server that is starting or started, and rejected
C2_Witness ==
    lastStart = "rejected" /\ _status \in {"Starting", "Started"}

\* C3: after start() in status Stopped, the status is Starting as long as
\* _start runs; it becomes Stopped when _start fails (the error is rethrown)
\* and Started when _start succeeds.
C3_StartingWhileStartRuns ==
    [][/\ starting' > 0 => _status' = "Starting"
       /\ (starting' < starting /\ lastStart' = "failed") => _status' = "Stopped"
       /\ (starting' < starting /\ lastStart' = "started") => _status' = "Started"]_vars

C5_ProceedsAtZero ==
    [][(stopping' = stopping + 1 /\ _status = "Started") => _pendingApiCallNum > 0]_vars

\* C6: when a stop() call finishes its hard stop, the status is Stopped, every
\* connection that was in the connection set has been disconnected by
\* _disconnect(true, 'Server stopped'), and _stop has been run.
C6_HardStop ==
    [][(lastStop' # lastStop \/ _stopRuns' = _stopRuns + 1)
          => /\ _status' = "Stopped"
             /\ _stopRuns' = _stopRuns + 1
             /\ lastStop'.pc \in {"done", "threw"}
             /\ \A c \in connections :
                    disconnected'[c] = [called |-> TRUE, isManual |-> TRUE,
                                        reason |-> "Server stopped"]]_vars

\* a stop() has finished and has disconnected a connection of the set
C6_Witness ==
    /\ lastStop.pc \in {"done", "threw"}
    /\ \E c \in ConnIds : disconnected[c].called /\ disconnected[c].isManual
    /\ _status = "Stopped"

\* C7: every broadcastMsg called while the status is not Started is rejected
\* with 'Server is not started', and no flow, encoding or send is performed.
C7_AlwaysRejected ==
    (bc.pc # "idle" /\ bc.atStatus # "Started")
        => /\ bc.pc = "done"
           /\ bc.result = OpErr("Server is not started")
           /\ bc.preBroadcastMsgFlow = 0 /\ bc.encodeBody = 0 /\ bc.encodeBox = 0
           /\ bc.preSendDataFlow = <<>> /\ bc.promiseSends = <<>>

\* C7 (amended): every broadcastMsg with at least one target connection called
\* while the status is not Started is rejected with 'Server is not started',
\* and no flow, encoding or send is performed; a broadcastMsg without targets
\* returns {isSucc: true} whatever the status, also without any of these.
C7_RejectedWithTargets ==
    /\ (bc.pc # "idle" /\ bc.atStatus # "Started" /\ bc.nTargets > 0)
        => /\ bc.pc = "done"
           /\ bc.result = OpErr("Server is not started")
           /\ bc.preBroadcastMsgFlow = 0 /\ bc.encodeBody = 0 /\ bc.encodeBox = 0
           /\ bc.preSendDataFlow = <<>> /\ bc.promiseSends = <<>>
    /\ (bc.pc # "idle" /\ bc.nTargets = 0)
        => /\ bc.pc = "done"
           /\ bc.result = OpSucc
           /\ bc.preBroadcastMsgFlow = 0 /\ bc.encodeBody = 0 /\ bc.encodeBox = 0
           /\ bc.preSendDataFlow = <<>> /\ bc.promiseSends = <<>>

\* a broadcast to two connections was called while the server was stopping
C7_Witness ==
    /\ bc.pc = "done"
    /\ bc.atStatus = "Stopping"
    /\ bc.nTargets >= 2
    /\ bc.result = OpErr("Server is not started")

\* C8: on an HTTP server that was started, stop() without a grace time
\* completes without raising an error.
C8_HttpStopCompletes ==
    [][(transport = "http" /\ _status = "Started"
          /\ _stopRuns' = _stopRuns + 1 /\ ~lastStop'.graceful)
          => lastStop'.pc = "done"]_vars

\* the dataTypes present among the targets of the broadcast
dataTypesOf(conns) == {dataType[c] : c \in Range(conns)}

\* C9: in a broadcastMsg that reaches the send step, the body is encoded once
\* per distinct dataType among the target connections.
C9_EncodeOncePerDataType ==
    bc.reachedSend => bc.encodeBody = Cardinality(dataTypesOf(bc.conns))

\* a broadcast to at least two connections, all of the same dataType, has
\* reached the send step
C9_Witness ==
    /\ bc.reachedSend
    /\ Len(bc.conns) >= 2
    /\ Cardinality(Range(bc.conns)) >= 2
    /\ Cardinality(dataTypesOf(bc.conns)) = 1
    /\ bc.encodeBody = 1

\* C10: in a broadcastMsg that reaches the send step, preSendDataFlow has been
\* executed once per distinct dataType among the targets, not once per
\* connection.
C10_PreSendDataOncePerGroup ==
    bc.reachedSend => Len(bc.preSendDataFlow) = Cardinality(dataTypesOf(bc.conns))

\* a broadcast to three targets of two dataTypes has reached the send step
C10_Witness ==
    /\ bc.reachedSend
    /\ Len(bc.conns) = 3
    /\ Cardinality(dataTypesOf(bc.conns)) = 2
    /\ Len(bc.preSendDataFlow) = 2
\* the sends of the broadcast that failed
failedSends == {i \in 1..Len(bc.promiseSends) : bc.promiseSends[i].op = "fail"}

\* C11: a broadcastMsg that reached the send step returns {isSucc: true} if
\* and only if every send succeeded; otherwise it returns {isSucc: false} with
\* an error message made of one entry per failed send.
C11_AggregateResult ==
    (bc.pc = "done" /\ bc.reachedSend)
        => /\ bc.result.tag = "OpResult"
           /\ bc.result.isSucc <=> failedSends = {}
           /\ Len(bc.result.named) = Cardinality(failedSends)
           /\ Len(bc.promiseSends) = Len(bc.conns)

\* a broadcast to three targets has returned after one send succeeded and two
\* failed
C11_Witness ==
    /\ bc.pc = "done"
    /\ bc.reachedSend
    /\ Len(bc.promiseSends) = 3
    /\ Cardinality(failedSends) = 2
    /\ ~bc.result.isSucc

\* C12: when preBroadcastMsgFlow, or preSendDataFlow of any dataType group,
\* aborts, broadcastMsg yields PROMISE_ABORTED, no target of any group is sent
\* any data and postSendDataFlow is not run.
C12_FlowAbort ==
    bc.pre = "null"
        => /\ bc.pc = "done"
           /\ bc.result = PROMISE_ABORTED
           /\ ~bc.reachedSend
           /\ bc.promiseSends = <<>>
           /\ bc.postSendDataFlow = <<>>

\* preSendDataFlow has aborted for the second group after it passed for the
\* first
C12_Witness ==
    /\ bc.pre = "null"
    /\ bc.pc = "done"
    /\ Len(bc.preSendDataFlow) = 2
    /\ bc.gi = 2
\* C13: once abort(sn) was called on a pending callApi, the promise of that
\* callApi is never resolved, whatever arrives afterwards (the response, a
\* failure of the request, the timeout) and in whatever order.
C13_AbortedNeverResolved ==
    \A i \in CallIds : calls[i].isAborted => calls[i].rets = <<>>

\* a call was aborted while its request was in flight, and the response of
\* that request has arrived and was handled afterwards
C13_Witness ==
    \E i \in CallIds :
        /\ calls[i].isAborted
        /\ calls[i].recv
        /\ calls[i].ret = "json"
        /\ calls[i].recvData = "done"

\* C14: when the response of a request arrives after its pending call has left
\* the registry, decoding fails with 'Invalid SN', no caller is resolved and no
\* other call changes.
C14_LateResponseDropped ==
    [][\A i \in CallIds :
          (calls[i].recvData = "pending" /\ calls'[i].recvData = "done"
              /\ get(calls, calls[i].sn) = {})
              => /\ calls'[i].decode = "Invalid SN"
                 /\ \A j \in CallIds : calls'[j].rets = calls[j].rets
                 /\ \A j \in CallIds : j # i => calls'[j] = calls[j]]_vars

\* the response of an aborted call was decoded while another call was pending
C14_Witness ==
    \E i, j \in CallIds :
        /\ calls[i].isAborted
        /\ calls[i].decode = "Invalid SN"
        /\ calls[j].inRegistry

\* the callApi invocations that are neither settled nor aborted
unsettled == {i \in CallIds : calls[i].pc # "idle" /\ calls[i].rets = <<>>
                                 /\ ~calls[i].isAborted}

\* C15: the number of pending calls is the number of callApi invocations that
\* are neither settled nor aborted: M right after M calls were issued, and 0
\* again once each of them has been resolved or aborted.
C15_PendingDrain ==
    /\ _pendingCallApis = unsettled
    /\ (\A i \in CallIds : calls[i].pc = "called" /\ i \in unsettled)
           => Cardinality(_pendingCallApis) = MaxCalls
    /\ (\A i \in CallIds : calls[i].rets # <<>> \/ calls[i].isAborted)
           => Cardinality(_pendingCallApis) = 0

\* every call was issued; one was aborted, the others resolved, and no call
\* is pending
C15_Witness ==
    /\ \A i \in CallIds : calls[i].pc = "sent"
    /\ \E i \in CallIds : calls[i].isAborted
    /\ \E i \in CallIds : Len(calls[i].rets) = 1
    /\ _pendingCallApis = {}

\* C16: when the timeout of a pending callApi elapses, its caller is resolved
\* exactly once, with 'Request Timeout' (code TIMEOUT, NetworkError); a
\* response that arrives later does not resolve it again.
C16_ClientTimeout ==
    \A i \in CallIds : calls[i].timer = "fired" => calls[i].rets = <<RequestTimeout>>

\* the timeout of a call has fired, and the response of its request has
\* arrived and was handled afterwards
C16_Witness ==
    \E i \in CallIds :
        /\ calls[i].timer = "fired"
        /\ calls[i].ret = "json"
        /\ calls[i].recvData = "done"

\* C17: the timeout given to the HTTP request of a call is options.timeout
\* whenever the call gives one (0 included), and callApiTimeout only when the
\* call gives none.
C17_RequestTimeout ==
    \A i \in CallIds :
        calls[i].request # "none"
            => calls[i].reqTimeout = IF calls[i].timeout # <<>> THEN calls[i].timeout
                                     ELSE callApiTimeout

\* C18: when the request of a pending, non-aborted callApi fails, one 'err'
\* return with that error and the SN of the request is given to the registry,
\* and the caller is resolved with {isSucc: false, err}.
C18_RequestFailure ==
    [][\A i \in CallIds :
          (calls[i].request = "inflight" /\ calls'[i].request = "settled"
              /\ calls'[i].ret \in RequestFailures
              /\ calls[i].inRegistry /\ ~calls[i].isAborted)
              => /\ calls'[i].apiReturns = << [type |-> "err", sn |-> calls[i].sn,
                                               ret |-> requestErr(calls'[i].ret)] >>
                 /\ calls'[i].rets = << requestErr(calls'[i].ret) >>
                 /\ ~calls'[i].inRegistry]_vars

\* the request of a pending call was rejected and its caller was resolved with
\* the LocalError
C18_Witness ==
    \E i \in CallIds :
        /\ calls[i].ret = "reject"
        /\ calls[i].rets = << requestErr("reject") >>
        /\ ~calls[i].isAborted
\* the callApi invocations made so far, in invocation order
issued == {i \in CallIds : calls[i].pc # "idle"}

\* C20: on one connection the SNs of the callApi invocations are pairwise
\* distinct and strictly increasing in invocation order, and no two calls that
\* are pending at the same time share an SN.
C20_StrictlyIncreasing ==
    /\ \A i, j \in issued : i < j => calls[i].sn < calls[j].sn
    /\ \A i, j \in _pendingCallApis : i # j => calls[i].sn # calls[j].sn

\* C20 (amended): in a sequence of fewer invocations than the counter has
\* values, the SNs are pairwise distinct, each SN is its predecessor plus one,
\* or 1 when the predecessor is the largest value of the counter, and no two
\* calls that are pending at the same time share an SN.
C20_DistinctUntilWrap ==
    /\ \A i, j \in issued : i < j => calls[i].sn # calls[j].sn
    /\ \A i, j \in issued :
           j = i + 1 => \/ calls[j].sn = calls[i].sn + 1
                        \/ (calls[i].sn = CounterMax /\ calls[j].sn = 1)
    /\ \A i \in issued : calls[i].sn \in 1..CounterMax
    /\ \A i, j \in _pendingCallApis : i # j => calls[i].sn # calls[j].sn

\* two calls are pending whose SNs are the largest value of the counter and,
\* after the wrap, 1
C20_Witness ==
    \E i, j \in _pendingCallApis :
        /\ j = i + 1
        /\ calls[i].sn = CounterMax
        /\ calls[j].sn = 1
\* C19: when the API timeout elapses before the handler has replied, the
\* peer receives exactly one return, 'Server Timeout' (code SERVER_TIMEOUT,
\* ServerError); the handler keeps running and the call.succ / call.error it
\* makes afterwards send nothing more.
C19_ServerTimeout ==
    \A i \in ApiCallIds :
        apiCalls[i].timer = "fired" => apiCalls[i].returns = <<ServerTimeout>>

\* the API timeout of a call has fired, and its handler has replied with
\* call.succ afterwards and then finished
C19_Witness ==
    \E i \in ApiCallIds :
        /\ apiCalls[i].timer = "fired"
        /\ apiCalls[i].replies = <<"succ">>
        /\ apiCalls[i].pc = "finished"

\* the side of the peer of an endpoint
peer(e) == IF e = "client" THEN "server" ELSE "client"

\* C21: in the ServiceMap an endpoint (client or server) built of a proto, an
\* API service is in localApi if and only if its side is the endpoint's side
\* or 'both', and in remoteApi if and only if its side is the peer's side or
\* 'both'
C21_LocalRemote ==
    (endpoint # "none" /\ distinctNames(serviceProto))
        => \A k \in 1..Len(serviceProto) :
               LET v == serviceProto[k] IN
               v.type = "api"
                   => /\ v.name \in DOMAIN serviceMap.map.localApi
                            <=> v.side \in {endpoint, "both"}
                      /\ v.name \in DOMAIN serviceMap.map.remoteApi
                            <=> v.side \in {peer(endpoint), "both"}

\* C22: building a ServiceMap fails if and only if two services of the proto
\* have the same id; of a proto with distinct ids it succeeds and id2Service
\* maps every service id to the service with that id
C22_FailsIffDuplicateId ==
    endpoint # "none"
        => /\ ~serviceMap.isSucc <=> ~distinctIds(serviceProto)
           /\ distinctIds(serviceProto)
                => \A k \in 1..Len(serviceProto) :
                       /\ serviceProto[k].id \in DOMAIN serviceMap.map.id2Service
                       /\ serviceMap.map.id2Service[serviceProto[k].id].id = serviceProto[k].id
                       /\ serviceMap.map.id2Service[serviceProto[k].id].name = serviceProto[k].name

\* the names of a list of autoImplementApi's output
listed(list) == {list[k] : k \in 1..Len(list)}

\* C23: in the {succ, fail, delay} autoImplementApi returns, every API service
\* it enumerates is in exactly one list, once; with a truthy delay all are in
\* delay and no handler has been loaded when it returns; without delay each
\* is in succ if its load succeeded and in fail otherwise
C23_Aggregate ==
    /\ [](impl.pc = "returned"
            => /\ Len(impl.output.succ) + Len(impl.output.fail) + Len(impl.output.delay)
                    = Len(apiServices)
               /\ listed(impl.output.succ) \cup listed(impl.output.fail)
                    \cup listed(impl.output.delay) = apiNames
               /\ delayTruthy(impl.delay) => listed(impl.output.delay) = apiNames
               /\ ~delayTruthy(impl.delay)
                    => \A a \in apiNames :
                           /\ a \in listed(impl.output.succ)
                                <=> loaderOf(loaders, a).load = "succ"
                           /\ a \in listed(impl.output.fail)
                                <=> loaderOf(loaders, a).load = "fail")
    /\ [][(impl.pc # "returned" /\ impl'.pc = "returned" /\ delayTruthy(impl'.delay))
            => \A a \in ServiceNames : loaderOf(loaders', a).load = "none"]_vars

\* autoImplementApi has returned lists with a loaded and a failed API, or
\* has delayed two APIs
C23_Witness ==
    /\ impl.pc = "returned"
    /\ \/ Len(impl.output.succ) = 1 /\ Len(impl.output.fail) = 1
       \/ Len(impl.output.delay) = 2

\* C24: once the load of the handler of an API has failed (immediate or
\* delayed mode), a handler is registered for the API and every request of
\* the API is answered by a registered handler with NOT_IMPLEMENTED
C24_FailedLoadStub ==
    /\ \A a \in apiNames : loaderOf(loaders, a).load = "fail" => handlerOf(a) # "undefined"
    /\ \A r \in 1..Len(reqs) :
           (reqs[r].pc # "waiting" /\ reqs[r].failed)
               => reqs[r].by # "none" /\ reqs[r].reply = "NOT_IMPLEMENTED"

stripSlash(srv) == IF endsWith(srv, "/") THEN SubSeq(srv, 1, Len(srv) - 1) ELSE srv

\* C26: the URL of a send is the server URL, exactly one '/' and the service
\* name when the data is text and the transportData has a service name (with
\* or without a '/' at the end of the server URL), else the plain server URL
C26_Url ==
    \A k \in 1..Len(sends) :
        sends[k].url = IF sends[k].data = "string" /\ sends[k].serviceName # ""
                       THEN stripSlash(server) \o <<"/", sends[k].serviceName>>
                       ELSE server

\* text with a service name was sent to a server URL that ends with '/', or
\* binary data was sent
C26_Witness ==
    \E k \in 1..Len(sends) :
        \/ sends[k].data = "string" /\ sends[k].serviceName # "" /\ endsWith(server, "/")
        \/ sends[k].data = "Uint8Array" /\ sends[k].serviceName # ""

\* _disconnect(false, 'Server stopped'), as addConnection calls it
TurnedAway == [called |-> TRUE, isManual |-> FALSE, reason |-> "Server stopped"]

\* C27: a connection given to addConnection while the server is not Started
\* is disconnected at once with the reason 'Server stopped', so that no
\* connection added while the server is not Started is ever Connected in a
\* state of the server
C27_TurnedAwayUnlessStarted ==
    /\ [][\A c \in ConnIds :
             (_status # "Started" /\ connStatus[c] = "New" /\ connStatus'[c] # "New")
                 => disconnected'[c] = TurnedAway /\ connStatus'[c] # "Connected"]_vars
    /\ [](\A c \in ConnIds : disconnected[c] = TurnedAway => connStatus[c] # "Connected")

\* a connection was turned away from a server that is stopping and still
\* holds a connection added while it was Started
C27_Witness ==
    \E c \in ConnIds :
        /\ disconnected[c] = TurnedAway
        /\ _status = "Stopping"
        /\ connections # {}

\* the targets of the broadcast are pairwise distinct connections
distinctTargets == Cardinality(Range(bc.conns)) = Len(bc.conns)

\* the sends made to the connection c
sendsTo(c) == {i \in 1..Len(bc.promiseSends) : bc.promiseSends[i].conn = c}

\* C28: in a broadcastMsg that reaches the send step with pairwise distinct
\* targets, every target is sent data exactly once and the data is the one
\* encoded for its own dataType
C28_OwnEncoding ==
    (bc.reachedSend /\ distinctTargets)
        => /\ \A c \in Range(bc.conns) :
                  /\ Cardinality(sendsTo(c)) = 1
                  /\ \A i \in sendsTo(c) :
                         bc.promiseSends[i].data = IF dataType[c] = "text" THEN "BoxText"
                                                   ELSE "BoxBuffer"
           /\ \A i \in 1..Len(bc.promiseSends) : bc.promiseSends[i].conn \in Range(bc.conns)

\* a text connection and a buffer connection were sent data by one broadcast
C28_Witness ==
    /\ bc.reachedSend
    /\ distinctTargets
    /\ Len(bc.conns) = 2
    /\ Cardinality(dataTypesOf(bc.conns)) = 2
    /\ \E i, j \in 1..Len(bc.promiseSends) :
           bc.promiseSends[i].data = "BoxText" /\ bc.promiseSends[j].data = "BoxBuffer"

\* C29: when sends of a broadcastMsg fail, the entries of the error message
\* name, in order, the connections whose send failed, for every target list
C29_NamesFailedConns ==
    (bc.pc = "done" /\ bc.reachedSend /\ ~bc.result.isSucc)
        => LET failed == SelectSeq([i \in 1..Len(bc.promiseSends) |-> i],
                                   LAMBDA i : bc.promiseSends[i].op = "fail")
           IN bc.result.named = [j \in 1..Len(failed) |-> bc.promiseSends[failed[j]].conn]

\* the sends of group k of the broadcast
sendsOf(k) ==
    {groupOffset(bc.connGroups, k) + i : i \in 1..Len(bc.connGroups[k].conns)}

\* C30: postSendDataFlow runs at most once per dataType group, only after
\* every send of the group has completed, with exactly the connections of
\* the group whose send succeeded, and not at all when every send of the
\* group failed
C30_PostSendDataFlow ==
    /\ [](bc.reachedSend
            => \A k \in 1..Len(bc.connGroups) :
                   /\ bc.postSendDataFlow[k] # "pending"
                        => \A i \in sendsOf(k) : bc.promiseSends[i].op # "pending"
                   /\ bc.postSendDataFlow[k] = "exec"
                        => /\ Range(bc.succConns[k])
                                = {bc.promiseSends[i].conn :
                                      i \in {j \in sendsOf(k) : bc.promiseSends[j].op = "succ"}}
                           /\ Len(bc.succConns[k])
                                = Cardinality({j \in sendsOf(k) : bc.promiseSends[j].op = "succ"})
                           /\ bc.succConns[k] # <<>>
                   /\ bc.postSendDataFlow[k] = "skipped"
                        => \A i \in sendsOf(k) : bc.promiseSends[i].op = "fail")
    /\ [][\A k \in 1..Len(bc.connGroups) :
             (k \in DOMAIN bc.postSendDataFlow /\ bc.postSendDataFlow[k] # "pending")
                 => /\ k \in DOMAIN bc'.postSendDataFlow
                    /\ bc'.postSendDataFlow[k] = bc.postSendDataFlow[k]
                    /\ bc'.succConns[k] = bc.succConns[k]]_vars

\* of two groups, the flow ran for one with the connection whose send
\* succeeded and was skipped for the other, whose send failed
C30_Witness ==
    /\ bc.reachedSend
    /\ Len(bc.connGroups) = 2
    /\ \E k, l \in 1..2 :
           /\ bc.postSendDataFlow[k] = "exec"
           /\ Len(bc.succConns[k]) < Len(bc.connGroups[k].conns)
           /\ bc.postSendDataFlow[l] = "skipped"

\* the requests the delay wrapper of the API a has taken
delayed(a) == {r \in 1..Len(reqs) : reqs[r].api = a /\ reqs[r].by = "delayHandler"}

\* C31: the handler of an API registered by the delayed loader is loaded at
\* most once, however many requests arrive and whether or not the timer
\* fires; a request that arrived during the load waits for it and is then
\* served by the loaded handler, or answered NOT_IMPLEMENTED when the load
\* failed; after a successful load the loaded handler is the registered one
C31_LoadedOnce ==
    (impl.pc = "returned" /\ delayTruthy(impl.delay))
        => \A a \in apiNames :
               /\ loaderOf(loaders, a).loads <= 1
               /\ loaderOf(loaders, a).load = "succ" => handlerOf(a) = "handler"
               /\ \A r \in delayed(a) :
                      /\ reqs[r].pc = "waiting" <=> loaderOf(loaders, a).load = "pending"
                      /\ reqs[r].pc = "answered"
                            <=> loaderOf(loaders, a).load \in {"succ", "fail"}
                      /\ reqs[r].pc = "answered"
                            => reqs[r].reply = IF loaderOf(loaders, a).load = "succ"
                                               THEN "handler" ELSE "NOT_IMPLEMENTED"

\* two requests of one API waited for one load, the timer of the API has
\* fired as well, and both were served by the loaded handler
C31_Witness ==
    /\ impl.pc = "returned"
    /\ impl.delay = "100"
    /\ \E a \in apiNames :
           /\ Cardinality(delayed(a)) = 2
           /\ ~loaderOf(loaders, a).timer
           /\ loaderOf(loaders, a).loads = 1
           /\ \A r \in delayed(a) : reqs[r].pc = "answered" /\ reqs[r].reply = "handler"

\* C32: after a successful start(), and as long as start() is not called
\* again, the hard stop (every connection is disconnected, then _stop() is
\* called) is run at most once, also when stop() is called again while a
\* graceful stop() is waiting
C32_HardStopOnce ==
    lastStart = "started" => _stopRuns <= 1

\* C33: no HTTP request of an aborted call is in flight: the request was
\* never issued, or the abort of the transport was invoked for it, also when
\* abort(sn) comes before _sendData has installed the onAbort hook
C33_NoRequestOfAbortedCall ==
    \A i \in CallIds : calls[i].isAborted => calls[i].request # "inflight"

\* C34: with concurrent callApi invocations on one HTTP client, the body of
\* the response of a request is decoded into a return that carries the SN of
\* that request and the apiName of its pending call, and handling it changes
\* neither the result nor the registration of any other call, in whatever
\* order the responses arrive
C34_OwnResponse ==
    [][\A i \in CallIds :
          (calls[i].recvData = "pending" /\ calls'[i].recvData = "done")
              => /\ calls'[i].decode = "res"
                        => calls'[i].apiReturns =
                              Append(calls[i].apiReturns,
                                     [type |-> "res", serviceName |-> apiNameOf(i),
                                      sn |-> calls[i].sn, ret |-> ApiReturnSucc])
                 /\ \A k \in CallIds \ {i} :
                        /\ calls'[k].rets = calls[k].rets
                        /\ calls'[k].inRegistry = calls[k].inRegistry]_vars

\* two calls for different APIs were pending together, the response of the
\* later one came first and resolved its caller, and the earlier call is
\* still pending with its request in flight
C34_Witness ==
    \E i, j \in CallIds :
        /\ i < j
        /\ calls[i].apiName # calls[j].apiName
        /\ calls[j].decode = "res"
        /\ calls[j].apiReturns = << [type |-> "res", serviceName |-> calls[j].apiName,
                                     sn |-> calls[j].sn, ret |-> ApiReturnSucc] >>
        /\ calls[j].rets = << ApiReturnSucc >>
        /\ calls[i].inRegistry
        /\ calls[i].request = "inflight"
        /\ calls[i].rets = << >>
====
